---- MODULE Spec2Model ----
(***************************************************************************)
(* The V2 travel-planning workflow (src/src_v2): a LangGraph state graph   *)
(* whose nodes return partial updates that the engine merges into one      *)
(* planning record.  The completion service and the four search providers  *)
(* are external: every outcome they can produce is a nondeterministic      *)
(* choice of the node's action.                                            *)
(*                                                                         *)
(* Spec runs the graph of create_travel_workflow as the REST layer starts  *)
(* it (api_v2.py); LongSpec runs the same graph against providers whose    *)
(* lists exceed what a node keeps; OptSpec runs the graph of               *)
(* create_optimized_travel_workflow; ConcSpec runs several invocations of  *)
(* plan_trip at once on the planner the REST layer shares between its      *)
(* requests; ToolSpec runs the graph with the flight tool of src/tools as  *)
(* the flight provider.                                                    *)
(*                                                                         *)
(* Encoding.  Python None is the string "None" for optional text fields    *)
(* and NoneNum for optional numbers.  Money is in whole dollars, ratings   *)
(* in tenths of a star.  An error message is a record: prefix is the       *)
(* literal part of the message, detail the interpolated str(e).            *)
(***************************************************************************)
EXTENDS Integers, Sequences, FiniteSets, TLC

VARIABLES
    state,           \* the TravelPlannerState dict threaded through the graph
    pc,              \* the node the engine runs next, or "END"
    trace,           \* the node executions so far, in order: which node ran,
                     \* the path it took and what it sent to external services
    provider_calls,  \* per category, number of provider invocations
    llm_calls,       \* per node, number of completion-service invocations
    endpoint,        \* the REST endpoint that started the run
    runs,            \* the plan_trip invocations in flight on the shared planner
    lists            \* the list objects the invocations' `errors` entries refer to

vars == <<state, pc, trace, provider_calls, llm_calls, endpoint, runs, lists>>

----------------------------------------------------------------------------
(* Bounds *)

MaxProviderLen == 2   \* longest list a flight/hotel provider returns
MaxActivityLen == 1   \* longest list the activity provider returns
MaxForecastLen == 1   \* longest forecast the weather provider returns
MaxRuns == 2          \* most invocations in flight on the shared planner

----------------------------------------------------------------------------
(* Python values *)

None == "None"
NoneNum == -1

EmptyDict == <<>>

\* dict.get(key, default)
Get(d, k, default) == IF k \in DOMAIN d THEN d[k] ELSE default

\* the engine's merge of a node's partial update into the record
Merge(s, patch) == patch @@ s

\* truthiness of an optional text / optional number
Truthy(x) == x # None /\ x # ""
TruthyNum(x) == x # NoneNum /\ x # 0

\* variant: seq[-n:]
TakeLast(seq, n) ==
    SubSeq(seq, IF Len(seq) < n THEN 1 ELSE Len(seq) - n + 1, Len(seq))

\* seq[:n]
Take(seq, n) == SubSeq(seq, 1, IF Len(seq) < n THEN Len(seq) ELSE n)

Err(prefix, detail) == [prefix |-> prefix, detail |-> detail]

\* "No user query" in err
ContainsNoUserQuery(err) == err.prefix = "No user query provided"

Services == {"flights", "hotels", "weather", "activities"}
Endpoints == {"plan-trip", "search-flights", "search-hotels"}

\* the nodes of the graph; each is handed the completion service
Nodes == {"classify_intent", "search_flights", "search_hotels", "check_weather",
          "search_activities", "generate_itinerary", "response_generator"}

ServiceNodes == {"search_flights", "search_hotels", "check_weather", "search_activities"}

LlmNodes == {"classify_intent", "generate_itinerary", "response_generator"}

----------------------------------------------------------------------------
(* Inputs: what the caller passes and what the external services answer *)

Queries == {"", "Plan a trip"}
Cities == {None, "Paris"}
Origins == {None, "New York"}
DepartureDates == {None, "2024-12-20"}
ReturnDates == {None, "2024-12-18", "2024-12-20", "2024-12-23", "2025-01-10", "next week"}
PassengerCounts == {NoneNum, 1, 2}
Budgets == {NoneNum, 1000}

Intents == {"plan_trip", "search_flights", "search_hotels", "search_activities",
            "check_weather", "book", "general"}

\* datetime.fromisoformat: the day number of an ISO date; other text raises
IsIsoDate(d) == d \in {"2024-12-18", "2024-12-20", "2024-12-23", "2025-01-10"}

\* the day a date falls on, counted from the last day of November 2024
DayNumber(d) ==
    CASE d = "2024-12-18" -> 18
      [] d = "2024-12-20" -> 20
      [] d = "2024-12-23" -> 23
      [] d = "2025-01-10" -> 41

\* the JSON objects the completion service can answer with
FullExtractions ==
    [intent : Intents \cup {None},
     origin : Origins, destination : Cities,
     departure_date : DepartureDates, return_date : ReturnDates,
     num_passengers : PassengerCounts, budget : Budgets,
     requires_flights : BOOLEAN, requires_hotels : BOOLEAN,
     requires_activities : BOOLEAN, requires_weather : BOOLEAN,
     preferences : {EmptyDict}]

\* The extractions the model draws from.  The service chain never reads the
\* intent and only the itinerary composer computes with the passenger count
\* and the budget, so the three groups are varied in turn, not all at once.
Complete(r) ==
    /\ r.origin # None /\ r.destination # None
    /\ r.departure_date = "2024-12-20" /\ r.return_date = "2024-12-23"

DefaultParty(r) == r.num_passengers = 1 /\ r.budget = NoneNum

BoundedExtraction(r) ==
    \/ Complete(r) /\ DefaultParty(r)
    \/ r.intent \in {"plan_trip", "search_flights"} /\ DefaultParty(r)
    \/ r.intent = "plan_trip" /\ Complete(r)

Extractions ==
    {r \in FullExtractions : BoundedExtraction(r)}
    \cup {EmptyDict, [intent |-> "plan_trip"]}

\* shapes of the completion service's reply text
ReplyShapes == {"fenced", "prose", "bare", "array", "text", "broken"}

\* outcome of llm.ainvoke in classify_intent_node
LlmFailure == [raised |-> TRUE, shape |-> "text", payload |-> EmptyDict, content |-> ""]

ClassifyReplies ==
    {LlmFailure}
    \cup [raised : {FALSE}, shape : {"fenced", "prose", "bare"}, payload : Extractions,
          content : {""}]
    \cup [raised : {FALSE}, shape : {"array", "text", "broken"}, payload : {EmptyDict},
          content : {""}]

\* the intent a single-category endpoint asks for
IntentOf(e) == IF e = "search-flights" THEN "search_flights" ELSE "search_hotels"

\* a run started by a single-category endpoint draws from the replies that
\* fail, that hold an empty object, or that name every field and the
\* endpoint's own intent
ClassifyRepliesFor(e) ==
    IF e = "plan-trip" THEN ClassifyReplies
    ELSE {r \in ClassifyReplies :
             \/ r.payload = EmptyDict
             \/ /\ "origin" \in DOMAIN r.payload
                /\ Complete(r.payload) /\ DefaultParty(r.payload)
                /\ r.payload.intent = IntentOf(e)}

\* outcome of llm.ainvoke in the two composers
TextReplies ==
    {LlmFailure,
     [raised |-> FALSE, shape |-> "text", payload |-> EmptyDict, content |-> "text"]}

RECURSIVE SeqsUpTo(_, _)
SeqsUpTo(S, n) ==
    IF n = 0 THEN {<<>>}
    ELSE LET shorter == SeqsUpTo(S, n - 1)
         IN shorter \cup {Append(q, x) : q \in {r \in shorter : Len(r) = n - 1}, x \in S}

RawFlights == {[total_price |-> 500], [total_price |-> 300]}
RawHotels == {[rating |-> 40, price_per_night |-> 200],
              [rating |-> 45, price_per_night |-> 300]}
RawActivities == {[price |-> 50]}
RawDays == {[temperature_is_dict |-> FALSE, temperature |-> 40, high |-> 40],
            [temperature_is_dict |-> TRUE, temperature |-> 0, high |-> 90]}

\* a provider call raises, or returns its records as a bare list, wrapped in
\* a dict under one of the keys the node looks for, or in some other shape.
\* The nodes are written against this interface, not against one provider:
\* the records come in any order and any number up to the bound.
ProviderShapes == {"list", "primary_key", "options_key", "other"}

ProviderFailure == [raised |-> TRUE, shape |-> "list", records |-> <<>>]

ProviderOutcomes(Raw, n) ==
    {ProviderFailure}
    \cup [raised : {FALSE}, shape : ProviderShapes, records : SeqsUpTo(Raw, n)]

\* provider lists that reach and exceed what a node keeps: records that
\* differ by position, in ascending and in descending order of their values
LongFlights(n) == [i \in 1..n |-> [total_price |-> 100 * i]]
LongHotels(n) == [i \in 1..n |-> [rating |-> 30 + i, price_per_night |-> 100 * i]]
LongActivities(n) == [i \in 1..n |-> [price |-> 10 * i]]

Reverse(seq) == [i \in 1..Len(seq) |-> seq[Len(seq) + 1 - i]]

LongOutcomes(full, longer) ==
    [raised : {FALSE}, shape : {"list", "primary_key"},
     records : {full, longer, Reverse(longer)}]

----------------------------------------------------------------------------
(* Intent classification: src_v2/nodes/intent_classifier.py *)

\* json.loads of the text the two regular expressions select
extract_json_from_text(reply) ==
    CASE reply.shape \in {"fenced", "prose", "bare"} ->
             [raised |-> FALSE, is_object |-> TRUE, value |-> reply.payload]
      [] reply.shape = "array" ->
             [raised |-> FALSE, is_object |-> FALSE, value |-> EmptyDict]
      [] OTHER ->
             [raised |-> TRUE, is_object |-> FALSE, value |-> EmptyDict]

\* variant: the except branch falls back to "general" without recording why
classify_failure_silent(s, detail) ==
    [intent |-> "general",
     errors |-> Get(s, "errors", <<>>),
     current_step |-> "intent_classification",
     completed_steps |-> Append(Get(s, "completed_steps", <<>>), "intent_classification")]

classify_failure(s, detail) ==
    [intent |-> "general",
     errors |-> Append(Get(s, "errors", <<>>), Err("Intent classification error", detail)),
     current_step |-> "intent_classification",
     completed_steps |-> Append(Get(s, "completed_steps", <<>>), "intent_classification")]

classify_updates(s, result) ==
    [intent |-> Get(result, "intent", "general"),
     origin |-> Get(result, "origin", None),
     destination |-> Get(result, "destination", None),
     departure_date |-> Get(result, "departure_date", None),
     return_date |-> Get(result, "return_date", None),
     num_passengers |-> Get(result, "num_passengers", 1),
     budget |-> Get(result, "budget", NoneNum),
     requires_flights |-> Get(result, "requires_flights", FALSE),
     requires_hotels |-> Get(result, "requires_hotels", FALSE),
     requires_activities |-> Get(result, "requires_activities", FALSE),
     requires_weather |-> Get(result, "requires_weather", FALSE),
     preferences |-> Get(result, "preferences", EmptyDict),
     current_step |-> "intent_classification",
     completed_steps |-> Append(Get(s, "completed_steps", <<>>), "intent_classification"),
     errors |-> Get(s, "errors", <<>>)]

classify_intent_node(s, reply) ==
    IF ~Truthy(Get(s, "user_query", ""))
    THEN [path |-> "no_query", llm |-> FALSE, called |-> FALSE,
          patch |-> [intent |-> "general",
                     requires_flights |-> FALSE,
                     requires_hotels |-> FALSE,
                     requires_activities |-> FALSE,
                     requires_weather |-> FALSE,
                     errors |-> <<Err("No user query provided", "")>>,
                     current_step |-> "intent_classification",
                     completed_steps |->
                         Append(Get(s, "completed_steps", <<>>), "intent_classification")]]
    ELSE IF reply.raised
    THEN [path |-> "raised", llm |-> TRUE, called |-> FALSE,
          patch |-> classify_failure(s, "completion service failed")]
    ELSE LET parsed == extract_json_from_text(reply) IN
         IF parsed.raised
         THEN [path |-> "raised", llm |-> TRUE, called |-> FALSE,
               patch |-> classify_failure(s, "invalid JSON")]
         ELSE IF ~parsed.is_object
         THEN [path |-> "raised", llm |-> TRUE, called |-> FALSE,
               patch |-> classify_failure(s, "'list' object has no attribute 'get'")]
         ELSE [path |-> "ok", llm |-> TRUE, called |-> FALSE,
               patch |-> classify_updates(s, parsed.value)]

----------------------------------------------------------------------------
(* Routing: src_v2/workflows/travel_workflow.py *)

\* variant: only the missing-query error ends the run early
route_after_intent_general_searches(s) ==
    LET errs == Get(s, "errors", <<>>)
    IN  IF \E i \in 1..Len(errs) : ContainsNoUserQuery(errs[i]) THEN "end"
        ELSE "parallel_search"

route_after_intent(s) ==
    LET intent == Get(s, "intent", "general")
        errors == Get(s, "errors", <<>>)
    IN  IF \E i \in 1..Len(errors) : ContainsNoUserQuery(errors[i]) THEN "end"
        ELSE IF intent = "general" THEN "end"
        ELSE IF intent = "plan_trip" THEN "parallel_search"
        ELSE "parallel_search"

\* variant: a trip plan needs both flights and hotels
route_after_parallel_search_needs_both(s) ==
    LET intent == Get(s, "intent", "general") IN
    IF intent \in {"search_flights", "search_hotels", "search_activities", "check_weather"}
    THEN "end"
    ELSE IF intent = "plan_trip"
            /\ (Len(Get(s, "flight_options", <<>>)) > 0
                /\ Len(Get(s, "hotel_options", <<>>)) > 0)
    THEN "generate_itinerary"
    ELSE "end"

route_after_parallel_search(s) ==
    LET intent == Get(s, "intent", "general") IN
    IF intent \in {"search_flights", "search_hotels", "search_activities", "check_weather"}
    THEN "end"
    ELSE IF intent = "plan_trip"
            /\ (Len(Get(s, "flight_options", <<>>)) > 0
                \/ Len(Get(s, "hotel_options", <<>>)) > 0)
    THEN "generate_itinerary"
    ELSE "end"

\* variant: the edge out of search_hotels bypasses the weather check
chain_edge_bypasses_weather(node) ==
    CASE node = "search_flights" -> "search_hotels"
      [] node = "search_hotels" -> "search_activities"
      [] node = "check_weather" -> "search_activities"

\* the unconditional edges of the service chain
chain_edge(node) ==
    CASE node = "search_flights" -> "search_hotels"
      [] node = "search_hotels" -> "check_weather"
      [] node = "check_weather" -> "search_activities"

----------------------------------------------------------------------------
(* Service nodes: src_v2/nodes/{flight,hotel,weather,activity}_node.py *)

\* the list a node reads out of a provider result that is a bare list or a
\* dict holding the list under one of the keys it looks for
raw_records(result) ==
    IF result.shape \in {"list", "primary_key", "options_key"}
    THEN result.records ELSE <<>>

\* check_weather_node only looks for keys; a bare list has none of them
raw_forecast(result) ==
    IF result.shape \in {"primary_key", "options_key"}
    THEN result.records ELSE <<>>

FlightTopN == 5
HotelTopN == 5
ActivityTopN == 10
ForecastToolLimit == 14

\* variant: the early return leaves no marker behind
skipped_update_no_marker(s, options_key, marker) ==
    [path |-> "skipped", llm |-> FALSE, called |-> FALSE,
     patch |-> (options_key :> <<>>)]

\* the early return of a node whose routing flag is false
skipped_update(s, options_key, marker) ==
    [path |-> "skipped", llm |-> FALSE, called |-> FALSE,
     patch |-> (options_key :> <<>>)
               @@ [completed_steps |-> Append(Get(s, "completed_steps", <<>>), marker)]]

\* variant: the rejected search is not marked as a completed step
rejected_update_unfinished(s, path, message, step) ==
    [path |-> path, llm |-> FALSE, called |-> FALSE,
     patch |-> [errors |-> Append(Get(s, "errors", <<>>), Err(message, "")),
                current_step |-> step]]

\* the return of a node that found a required field missing or unusable
rejected_update(s, path, message, step) ==
    [path |-> path, llm |-> FALSE, called |-> FALSE,
     patch |-> [errors |-> Append(Get(s, "errors", <<>>), Err(message, "")),
                current_step |-> step,
                completed_steps |-> Append(Get(s, "completed_steps", <<>>), step)]]

\* variant: every category reports under one generic prefix
raised_update_generic_prefix(s, options_key, prefix, detail, step, called, days) ==
    [path |-> "raised", llm |-> FALSE, called |-> called, days |-> days,
     patch |-> (options_key :> <<>>)
               @@ [errors |-> Append(Get(s, "errors", <<>>), Err("Search error", detail)),
                   current_step |-> step,
                   completed_steps |-> Append(Get(s, "completed_steps", <<>>), step)]]

\* the except branch of a node
raised_update(s, options_key, prefix, detail, step, called, days) ==
    [path |-> "raised", llm |-> FALSE, called |-> called, days |-> days,
     patch |-> (options_key :> <<>>)
               @@ [errors |-> Append(Get(s, "errors", <<>>), Err(prefix, detail)),
                   current_step |-> step,
                   completed_steps |-> Append(Get(s, "completed_steps", <<>>), step)]]

\* variant: the node writes back the passenger count it defaulted
found_update_writes_party(s, options_key, options, step, days) ==
    [path |-> "ok", llm |-> FALSE, called |-> TRUE, days |-> days,
     patch |-> (options_key :> options)
               @@ [current_step |-> step,
                   completed_steps |-> Append(Get(s, "completed_steps", <<>>), step),
                   errors |-> Get(s, "errors", <<>>),
                   num_passengers |-> IF TruthyNum(Get(s, "num_passengers", 1))
                                      THEN Get(s, "num_passengers", 1) ELSE 1]]

\* the return of a node whose provider answered
found_update(s, options_key, options, step, days) ==
    [path |-> "ok", llm |-> FALSE, called |-> TRUE, days |-> days,
     patch |-> (options_key :> options)
               @@ [current_step |-> step,
                   completed_steps |-> Append(Get(s, "completed_steps", <<>>), step),
                   errors |-> Get(s, "errors", <<>>)]]

FlightOption(flight, origin, destination) ==
    [price |-> Get(flight, "total_price", 0),
     origin |-> origin, destination |-> destination]

search_flights_node(s, result) ==
    IF ~Get(s, "requires_flights", FALSE)
    THEN skipped_update(s, "flight_options", "flight_search_skipped")
    ELSE LET origin == Get(s, "origin", None)
             destination == Get(s, "destination", None)
             departure_date == Get(s, "departure_date", None)
         IN
         IF ~(Truthy(origin) /\ Truthy(destination) /\ Truthy(departure_date))
         THEN rejected_update(s, "missing",
                  "Missing required flight parameters: origin, destination, or departure_date",
                  "flight_search")
         ELSE IF result.raised
         THEN raised_update(s, "flight_options", "Flight search error", "provider failed",
                            "flight_search", TRUE, 0)
         ELSE LET raw_flights == Take(raw_records(result), FlightTopN) IN
              found_update(s, "flight_options",
                  [i \in 1..Len(raw_flights) |->
                      FlightOption(raw_flights[i], origin, destination)],
                  "flight_search", 0)

\* variant: the total is the price of one night
HotelOption_one_night(hotel, destination, num_nights) ==
    [rating |-> Get(hotel, "rating", 0),
     price_per_night |-> Get(hotel, "price_per_night", 0),
     total_price |-> Get(hotel, "price_per_night", 0),
     location |-> destination]

HotelOption(hotel, destination, num_nights) ==
    [rating |-> Get(hotel, "rating", 0),
     price_per_night |-> Get(hotel, "price_per_night", 0),
     total_price |-> Get(hotel, "price_per_night", 0) * num_nights,
     location |-> destination]

search_hotels_node(s, result) ==
    IF ~Get(s, "requires_hotels", FALSE)
    THEN skipped_update(s, "hotel_options", "hotel_search_skipped")
    ELSE LET destination == Get(s, "destination", None)
             departure_date == Get(s, "departure_date", None)
             return_date == Get(s, "return_date", None)
         IN
         IF ~(Truthy(destination) /\ Truthy(departure_date) /\ Truthy(return_date))
         THEN rejected_update(s, "missing",
                  "Missing required hotel parameters: destination or dates", "hotel_search")
         ELSE IF ~(IsIsoDate(departure_date) /\ IsIsoDate(return_date))
         THEN raised_update(s, "hotel_options", "Hotel search error",
                            "Invalid isoformat string", "hotel_search", FALSE, 0)
         ELSE LET num_nights == DayNumber(return_date) - DayNumber(departure_date) IN
              IF num_nights <= 0
              THEN rejected_update(s, "invalid_dates",
                       "Invalid date range for hotel stay", "hotel_search")
              ELSE IF result.raised
              THEN raised_update(s, "hotel_options", "Hotel search error", "provider failed",
                                 "hotel_search", TRUE, 0)
              ELSE LET raw_hotels == Take(raw_records(result), HotelTopN) IN
                   found_update(s, "hotel_options",
                       [i \in 1..Len(raw_hotels) |->
                           HotelOption(raw_hotels[i], destination, num_nights)],
                       "hotel_search", 0)

WeatherInfo(day) ==
    [temperature |-> IF day.temperature_is_dict THEN 0 ELSE Get(day, "temperature", 0)]

\* the day count check_weather_node asks the provider for
forecast_days(departure_date, return_date) ==
    LET start == DayNumber(departure_date)
        end == IF Truthy(return_date) THEN DayNumber(return_date) ELSE start
        days == (end - start) + 1
    IN  IF days < ForecastToolLimit THEN days ELSE ForecastToolLimit

check_weather_node(s, result) ==
    IF ~Get(s, "requires_weather", FALSE)
    THEN skipped_update(s, "weather_forecast", "weather_check_skipped")
    ELSE LET destination == Get(s, "destination", None)
             departure_date == Get(s, "departure_date", None)
             return_date == Get(s, "return_date", None)
         IN
         IF ~(Truthy(destination) /\ Truthy(departure_date))
         THEN rejected_update(s, "missing",
                  "Missing required weather parameters: destination or departure_date",
                  "weather_check")
         ELSE IF ~(IsIsoDate(departure_date)
                   /\ (Truthy(return_date) => IsIsoDate(return_date)))
         THEN raised_update(s, "weather_forecast", "Weather check error",
                            "Invalid isoformat string", "weather_check", FALSE, 0)
         ELSE IF result.raised
         THEN raised_update(s, "weather_forecast", "Weather check error", "provider failed",
                            "weather_check", TRUE,
                            forecast_days(departure_date, return_date))
         ELSE LET raw == raw_forecast(result) IN
              found_update(s, "weather_forecast",
                  [i \in 1..Len(raw) |-> WeatherInfo(raw[i])],
                  "weather_check", forecast_days(departure_date, return_date))

ActivityOption(activity) == [price |-> Get(activity, "price", 0)]

\* variant: the activity provider is asked without a destination check
search_activities_node_unchecked(s, result) ==
    IF ~Get(s, "requires_activities", FALSE)
    THEN skipped_update(s, "activity_options", "activity_search_skipped")
    ELSE IF result.raised
    THEN raised_update(s, "activity_options", "Activity search error",
                       "provider failed", "activity_search", TRUE, 0)
    ELSE LET raw_activities == Take(raw_records(result), ActivityTopN) IN
         found_update(s, "activity_options",
             [i \in 1..Len(raw_activities) |-> ActivityOption(raw_activities[i])],
             "activity_search", 0)

search_activities_node(s, result) ==
    IF ~Get(s, "requires_activities", FALSE)
    THEN skipped_update(s, "activity_options", "activity_search_skipped")
    ELSE LET destination == Get(s, "destination", None) IN
         IF ~Truthy(destination)
         THEN rejected_update(s, "missing",
                  "Missing destination for activity search", "activity_search")
         ELSE IF result.raised
         THEN raised_update(s, "activity_options", "Activity search error",
                            "provider failed", "activity_search", TRUE, 0)
         ELSE LET raw_activities == Take(raw_records(result), ActivityTopN) IN
              found_update(s, "activity_options",
                  [i \in 1..Len(raw_activities) |-> ActivityOption(raw_activities[i])],
                  "activity_search", 0)

----------------------------------------------------------------------------
(* Itinerary composer: src_v2/nodes/itinerary_node.py *)

FlightPrice(f) == Get(f, "price", 0)
HotelRating(h) == Get(h, "rating", 0)

\* min(flight_options, key=price): the first option of the lowest price
CheapestFlight(options) ==
    options[CHOOSE i \in 1..Len(options) :
                /\ \A j \in 1..Len(options) : FlightPrice(options[i]) <= FlightPrice(options[j])
                /\ \A j \in 1..(i - 1) : FlightPrice(options[j]) > FlightPrice(options[i])]

\* max(hotel_options, key=rating): the first option of the highest rating
BestRatedHotel(options) ==
    options[CHOOSE i \in 1..Len(options) :
                /\ \A j \in 1..Len(options) : HotelRating(options[i]) >= HotelRating(options[j])
                /\ \A j \in 1..(i - 1) : HotelRating(options[j]) < HotelRating(options[i])]

NoOption == EmptyDict

\* the flight the prompt presents under "Selected Flight"
best_flight(s) ==
    LET selected_flight == Get(s, "selected_flight", NoOption)
        flight_options == Get(s, "flight_options", <<>>)
    IN  IF selected_flight # NoOption THEN selected_flight
        ELSE IF Len(flight_options) > 0 THEN CheapestFlight(flight_options)
        ELSE NoOption

\* variant: the default hotel is the first of the list
best_hotel_first_listed(s) ==
    LET selected_hotel == Get(s, "selected_hotel", NoOption)
        hotel_options == Get(s, "hotel_options", <<>>)
    IN  IF selected_hotel # NoOption THEN selected_hotel
        ELSE IF Len(hotel_options) > 0 THEN hotel_options[1]
        ELSE NoOption

\* the hotel the prompt presents under "Selected Hotel"
best_hotel(s) ==
    LET selected_hotel == Get(s, "selected_hotel", NoOption)
        hotel_options == Get(s, "hotel_options", <<>>)
    IN  IF selected_hotel # NoOption THEN selected_hotel
        ELSE IF Len(hotel_options) > 0 THEN BestRatedHotel(hotel_options)
        ELSE NoOption

\* the flight whose price enters total_cost
costed_flight(s) ==
    LET selected_flight == Get(s, "selected_flight", NoOption)
        flight_options == Get(s, "flight_options", <<>>)
    IN  IF selected_flight # NoOption THEN selected_flight
        ELSE IF Len(flight_options) > 0 THEN flight_options[1]
        ELSE NoOption

\* the hotel whose total price enters total_cost
costed_hotel(s) ==
    LET selected_hotel == Get(s, "selected_hotel", NoOption)
        hotel_options == Get(s, "hotel_options", <<>>)
    IN  IF selected_hotel # NoOption THEN selected_hotel
        ELSE IF Len(hotel_options) > 0 THEN hotel_options[1]
        ELSE NoOption

flight_cost(s) ==
    IF costed_flight(s) = NoOption THEN 0
    ELSE FlightPrice(costed_flight(s)) * Get(s, "num_passengers", 1)

hotel_cost(s) ==
    IF costed_hotel(s) = NoOption THEN 0
    ELSE Get(costed_hotel(s), "total_price", 0)

compute_total_cost(s) == flight_cost(s) + hotel_cost(s)

budget_recommendation(budget, total_cost) ==
    IF TruthyNum(budget) /\ total_cost > 0
    THEN LET remaining == budget - total_cost IN
         IF remaining > 0
         THEN <<[kind |-> "remaining", amount |-> remaining]>>
         ELSE <<[kind |-> "exceed budget by", amount |-> -remaining]>>
    ELSE <<>>

RECURSIVE SumHighs(_)
SumHighs(forecast) ==
    IF forecast = <<>> THEN 0
    ELSE Get(Head(forecast), "temperature_high", 0) + SumHighs(Tail(forecast))

WarmLimit == 50
LightLimit == 80

\* avg_temp < 50 and avg_temp > 80, compared without dividing
packing_recommendation(forecast) ==
    IF Len(forecast) = 0 THEN <<>>
    ELSE IF SumHighs(forecast) < WarmLimit * Len(forecast)
    THEN <<[kind |-> "warm clothing", amount |-> 0]>>
    ELSE IF SumHighs(forecast) > LightLimit * Len(forecast)
    THEN <<[kind |-> "light clothing", amount |-> 0]>>
    ELSE <<>>

\* variant: the except branch reports the hotel cost it could still compute
itinerary_failure_reports_cost(s, detail) ==
    [itinerary |-> None,
     total_cost |-> hotel_cost(s),
     errors |-> Append(Get(s, "errors", <<>>), Err("Itinerary generation error", detail)),
     current_step |-> "itinerary_generation",
     completed_steps |-> Append(Get(s, "completed_steps", <<>>), "itinerary_generation")]

\* variant: the except branch starts a fresh error list
itinerary_failure_overwrites(s, detail) ==
    [itinerary |-> None,
     errors |-> <<Err("Itinerary generation error", detail)>>,
     current_step |-> "itinerary_generation",
     completed_steps |-> Append(Get(s, "completed_steps", <<>>), "itinerary_generation")]

itinerary_failure(s, detail) ==
    [itinerary |-> None,
     errors |-> Append(Get(s, "errors", <<>>), Err("Itinerary generation error", detail)),
     current_step |-> "itinerary_generation",
     completed_steps |-> Append(Get(s, "completed_steps", <<>>), "itinerary_generation")]

generate_itinerary_node(s, reply) ==
    IF reply.raised
    THEN [path |-> "raised", llm |-> TRUE, called |-> FALSE,
          prompt |-> [flight |-> best_flight(s), hotel |-> best_hotel(s)],
          patch |-> itinerary_failure(s, "completion service failed")]
    ELSE IF costed_flight(s) # NoOption /\ Get(s, "num_passengers", 1) = NoneNum
    THEN [path |-> "raised", llm |-> TRUE, called |-> FALSE,
          prompt |-> [flight |-> best_flight(s), hotel |-> best_hotel(s)],
          patch |-> itinerary_failure(s, "unsupported operand type(s) for *")]
    ELSE LET total_cost == compute_total_cost(s) IN
         [path |-> "ok", llm |-> TRUE, called |-> FALSE,
          prompt |-> [flight |-> best_flight(s), hotel |-> best_hotel(s)],
          patch |-> [itinerary |-> reply.content,
                     total_cost |-> total_cost,
                     recommendations |->
                         budget_recommendation(Get(s, "budget", NoneNum), total_cost)
                         \o packing_recommendation(Get(s, "weather_forecast", <<>>)),
                     current_step |-> "itinerary_generation",
                     completed_steps |->
                         Append(Get(s, "completed_steps", <<>>), "itinerary_generation"),
                     errors |-> Get(s, "errors", <<>>)]]

----------------------------------------------------------------------------
(* Response composer: src_v2/nodes/response_node.py *)

FallbackResponse ==
    "I apologize, but I encountered an error while generating a response. Please try again."

\* variant: a run that failed for want of a query is answered with a canned
\* text, without asking the completion service
generate_response_node_canned(s, reply) ==
    LET errs == Get(s, "errors", <<>>) IN
    IF \E i \in 1..Len(errs) : ContainsNoUserQuery(errs[i])
    THEN [path |-> "ok", llm |-> FALSE, called |-> FALSE,
          patch |-> [response |-> FallbackResponse,
                     current_step |-> "response_generation",
                     completed_steps |->
                         Append(Get(s, "completed_steps", <<>>), "response_generation")]]
    ELSE IF reply.raised
    THEN [path |-> "raised", llm |-> TRUE, called |-> FALSE,
          patch |-> [response |-> FallbackResponse,
                     errors |-> Append(Get(s, "errors", <<>>),
                                       Err("Response generation error",
                                           "completion service failed"))]]
    ELSE [path |-> "ok", llm |-> TRUE, called |-> FALSE,
          patch |-> [response |-> reply.content,
                     current_step |-> "response_generation",
                     completed_steps |->
                         Append(Get(s, "completed_steps", <<>>), "response_generation")]]

\* variant: the handler records the error but substitutes no fallback text
generate_response_node_no_fallback(s, reply) ==
    IF reply.raised
    THEN [path |-> "raised", llm |-> TRUE, called |-> FALSE,
          patch |-> [errors |-> Append(Get(s, "errors", <<>>),
                                       Err("Response generation error",
                                           "completion service failed"))]]
    ELSE [path |-> "ok", llm |-> TRUE, called |-> FALSE,
          patch |-> [response |-> reply.content,
                     current_step |-> "response_generation",
                     completed_steps |->
                         Append(Get(s, "completed_steps", <<>>), "response_generation")]]

generate_response_node(s, reply) ==
    IF reply.raised
    THEN [path |-> "raised", llm |-> TRUE, called |-> FALSE,
          patch |-> [response |-> FallbackResponse,
                     errors |-> Append(Get(s, "errors", <<>>),
                                       Err("Response generation error",
                                           "completion service failed"))]]
    ELSE [path |-> "ok", llm |-> TRUE, called |-> FALSE,
          patch |-> [response |-> reply.content,
                     current_step |-> "response_generation",
                     completed_steps |->
                         Append(Get(s, "completed_steps", <<>>), "response_generation")]]

----------------------------------------------------------------------------
(* TravelPlannerV2.plan_trip and the graph of create_travel_workflow *)

initial_state(query, origin, destination, departure_date, return_date, num_passengers, budget, preferences) ==
    [user_query |-> query,
     origin |-> origin,
     destination |-> destination,
     departure_date |-> departure_date,
     return_date |-> return_date,
     num_passengers |-> num_passengers,
     budget |-> budget,
     preferences |-> preferences,
     flight_options |-> <<>>,
     hotel_options |-> <<>>,
     activity_options |-> <<>>,
     weather_forecast |-> <<>>,
     completed_steps |-> <<>>,
     errors |-> <<>>,
     retry_count |-> 0,
     booking_confirmed |-> FALSE,
     total_cost |-> 0,
     recommendations |-> <<>>,
     next_actions |-> <<>>]

\* TravelPlannerV2.search_flights: a query built from its arguments
search_flights(origin, destination, departure_date, return_date, num_passengers, budget) ==
    initial_state("Find flights", origin, destination, departure_date, return_date,
                  num_passengers, budget, EmptyDict)

\* TravelPlannerV2.search_hotels: check-in and check-out become the dates
search_hotels(destination, check_in, check_out, num_guests, min_rating, budget) ==
    initial_state("Find hotels", None, destination, check_in, check_out,
                  num_guests, budget, [hotel_rating |-> min_rating])

DefaultMinRating == 30

\* the record each endpoint of the REST layer starts the workflow with
Requests ==
    [e \in Endpoints |->
        CASE e = "plan-trip" ->
                 {initial_state(query, None, destination, None, None, 1, budget, EmptyDict) :
                      query \in Queries, destination \in Cities, budget \in Budgets}
          [] e = "search-flights" ->
                 {search_flights("New York", "Paris", "2024-12-20", None, 1, NoneNum)}
          [] e = "search-hotels" ->
                 {search_hotels("Paris", "2024-12-20", "2024-12-23", 1,
                                DefaultMinRating, NoneNum)}]

Init ==
    /\ endpoint \in Endpoints
    /\ state \in Requests[endpoint]
    /\ pc = "classify_intent"
    /\ trace = <<>>
    /\ provider_calls = [c \in Services |-> 0]
    /\ llm_calls = [n \in Nodes |-> 0]
    /\ runs = <<>>
    /\ lists = <<>>

\* a node that returns before its provider call behaves the same whatever the
\* provider would have answered: one outcome stands for all of them
AnyOf(outcomes) == CHOOSE result \in outcomes : TRUE

\* the engine runs one node: merges its update and follows the outgoing edge
RunNode(node, res, returned, next) ==
    /\ state' = Merge(state, res.patch)
    /\ pc' = next
    /\ trace' = Append(trace, [node |-> node, path |-> res.path, called |-> res.called,
                                prompt |-> Get(res, "prompt", EmptyDict),
                                days |-> Get(res, "days", 0),
                                returned |-> IF res.called THEN returned ELSE <<>>])
    /\ endpoint' = endpoint
    /\ UNCHANGED <<runs, lists>>

CountProvider(category, res) ==
    provider_calls' = IF res.called
                      THEN [provider_calls EXCEPT ![category] = @ + 1]
                      ELSE provider_calls

CountLlm(node, res) ==
    llm_calls' = IF res.llm THEN [llm_calls EXCEPT ![node] = @ + 1] ELSE llm_calls

ClassifyIntent ==
    /\ pc = "classify_intent"
    /\ \E reply \in ClassifyRepliesFor(endpoint) :
          LET res == classify_intent_node(state, reply) IN
          /\ res.llm \/ reply = LlmFailure
          /\ RunNode("classify_intent", res, <<>>,
                     IF route_after_intent(Merge(state, res.patch)) = "parallel_search"
                     THEN "search_flights" ELSE "response_generator")
          /\ CountLlm("classify_intent", res)
          /\ UNCHANGED provider_calls

\* the flight node run against one of the given provider outcomes
SearchFlightsWith(outcomes) ==
    /\ pc = "search_flights"
    /\ \E result \in outcomes :
          LET res == search_flights_node(state, result) IN
          /\ res.called \/ result = AnyOf(outcomes)
          /\ RunNode("search_flights", res, raw_records(result),
                     chain_edge("search_flights"))
          /\ CountProvider("flights", res)
          /\ CountLlm("search_flights", res)

SearchFlights == SearchFlightsWith(ProviderOutcomes(RawFlights, MaxProviderLen))

SearchHotelsWith(outcomes) ==
    /\ pc = "search_hotels"
    /\ \E result \in outcomes :
          LET res == search_hotels_node(state, result) IN
          /\ res.called \/ result = AnyOf(outcomes)
          /\ RunNode("search_hotels", res, raw_records(result),
                     chain_edge("search_hotels"))
          /\ CountProvider("hotels", res)
          /\ CountLlm("search_hotels", res)

SearchHotels == SearchHotelsWith(ProviderOutcomes(RawHotels, MaxProviderLen))

CheckWeather ==
    /\ pc = "check_weather"
    /\ \E result \in ProviderOutcomes(RawDays, MaxForecastLen) :
          LET res == check_weather_node(state, result) IN
          /\ res.called \/ result = ProviderFailure
          /\ RunNode("check_weather", res, raw_forecast(result),
                     chain_edge("check_weather"))
          /\ CountProvider("weather", res)
          /\ CountLlm("check_weather", res)

SearchActivitiesWith(outcomes) ==
    /\ pc = "search_activities"
    /\ \E result \in outcomes :
          LET res == search_activities_node(state, result) IN
          /\ res.called \/ result = AnyOf(outcomes)
          /\ RunNode("search_activities", res, raw_records(result),
                     IF route_after_parallel_search(Merge(state, res.patch)) = "generate_itinerary"
                     THEN "generate_itinerary" ELSE "response_generator")
          /\ CountProvider("activities", res)
          /\ CountLlm("search_activities", res)

SearchActivities == SearchActivitiesWith(ProviderOutcomes(RawActivities, MaxActivityLen))

GenerateItinerary ==
    /\ pc = "generate_itinerary"
    /\ \E reply \in TextReplies :
          LET res == generate_itinerary_node(state, reply) IN
          /\ RunNode("generate_itinerary", res, <<>>, "response_generator")
          /\ CountLlm("generate_itinerary", res)
          /\ UNCHANGED provider_calls

GenerateResponse ==
    /\ pc = "response_generator"
    /\ \E reply \in TextReplies :
          LET res == generate_response_node(state, reply) IN
          /\ RunNode("response_generator", res, <<>>, "END")
          /\ CountLlm("response_generator", res)
          /\ UNCHANGED provider_calls

Next ==
    \/ ClassifyIntent
    \/ SearchFlights
    \/ SearchHotels
    \/ CheckWeather
    \/ SearchActivities
    \/ GenerateItinerary
    \/ GenerateResponse

Spec == Init /\ [][Next]_vars

\* the engine runs the node pc names whenever one is pending
FairSpec == Spec /\ WF_vars(Next)

\* the same graph against providers that return long lists
LongSearchFlights ==
    SearchFlightsWith(LongOutcomes(LongFlights(FlightTopN), LongFlights(FlightTopN + 1)))

LongSearchHotels ==
    SearchHotelsWith(LongOutcomes(LongHotels(HotelTopN), LongHotels(HotelTopN + 1)))

LongSearchActivities ==
    SearchActivitiesWith(LongOutcomes(LongActivities(ActivityTopN),
                                      LongActivities(ActivityTopN + 1)))

LongNext ==
    \/ ClassifyIntent
    \/ LongSearchFlights
    \/ LongSearchHotels
    \/ CheckWeather
    \/ LongSearchActivities
    \/ GenerateItinerary
    \/ GenerateResponse

LongSpec == Init /\ [][LongNext]_vars

\* The graph of create_optimized_travel_workflow: the same nodes without a
\* response composer; classification always leads into the chain, and the
\* chain and the itinerary composer lead to END.
OptClassifyIntent ==
    /\ pc = "classify_intent"
    /\ \E reply \in ClassifyRepliesFor(endpoint) :
          LET res == classify_intent_node(state, reply) IN
          /\ res.llm \/ reply = LlmFailure
          /\ RunNode("classify_intent", res, <<>>, "search_flights")
          /\ CountLlm("classify_intent", res)
          /\ UNCHANGED provider_calls

OptSearchActivities ==
    /\ pc = "search_activities"
    /\ \E result \in ProviderOutcomes(RawActivities, MaxActivityLen) :
          LET res == search_activities_node(state, result) IN
          /\ res.called \/ result = ProviderFailure
          /\ RunNode("search_activities", res, raw_records(result),
                     IF route_after_parallel_search(Merge(state, res.patch)) = "generate_itinerary"
                     THEN "generate_itinerary" ELSE "END")
          /\ CountProvider("activities", res)
          /\ CountLlm("search_activities", res)

OptGenerateItinerary ==
    /\ pc = "generate_itinerary"
    /\ \E reply \in TextReplies :
          LET res == generate_itinerary_node(state, reply) IN
          /\ RunNode("generate_itinerary", res, <<>>, "END")
          /\ CountLlm("generate_itinerary", res)
          /\ UNCHANGED provider_calls

OptNext ==
    \/ OptClassifyIntent
    \/ SearchFlights
    \/ SearchHotels
    \/ CheckWeather
    \/ OptSearchActivities
    \/ OptGenerateItinerary

OptSpec == Init /\ [][OptNext]_vars

\* The same graph with the flight provider the repository ships
\* (src/tools/flight_tools.py): it quotes three flights, each with a fare per
\* person and a total for the party, doubled when a return date is given,
\* and lists them by total.
ToolFlightCount == 3
ToolFares == {100, 200}

tool_flight(fare, return_date, passengers) ==
    [price_per_person |-> fare,
     total_price |-> (fare * passengers) * (IF Truthy(return_date) THEN 2 ELSE 1)]

\* flights.sort(key=total_price): ascending, equal totals keep their order
RECURSIVE SortedByTotalPrice(_)
SortedByTotalPrice(flights) ==
    IF flights = <<>> THEN <<>>
    ELSE LET rest == SortedByTotalPrice(Tail(flights))
             below == Cardinality({i \in 1..Len(rest) :
                                      rest[i].total_price < Head(flights).total_price})
         IN SubSeq(rest, 1, below) \o <<Head(flights)>> \o SubSeq(rest, below + 1, Len(rest))

\* the parameters search_flights_node sends that the tool computes with
flight_search_params(s) ==
    [return_date |-> Get(s, "return_date", None),
     passengers |-> IF TruthyNum(Get(s, "num_passengers", NoneNum))
                    THEN Get(s, "num_passengers", NoneNum) ELSE 1]

\* what the tool can answer to the request of the record
ToolFlightOutcomes(s) ==
    {[raised |-> FALSE, shape |-> "list",
      records |-> SortedByTotalPrice(
                      [i \in 1..ToolFlightCount |->
                          tool_flight(fares[i], flight_search_params(s).return_date,
                                      flight_search_params(s).passengers)])] :
         fares \in [1..ToolFlightCount -> ToolFares]}

ToolSearchFlights == SearchFlightsWith(ToolFlightOutcomes(state))

ToolNext ==
    \/ ClassifyIntent
    \/ ToolSearchFlights
    \/ SearchHotels
    \/ CheckWeather
    \/ SearchActivities
    \/ GenerateItinerary
    \/ GenerateResponse

ToolSpec == Init /\ [][ToolNext]_vars

\* Several invocations on one planner (api_v2.py keeps a global planner and
\* every request awaits planner.plan_trip).  The planner holds the completion
\* client and the compiled graph and assigns neither after construction; an
\* invocation's record is a dict of its own.  The service nodes append to the
\* list object the record's `errors` entry refers to, so list objects have
\* identities here: a record holds the index of its list in `lists`.

\* variant: one list kept with the planner and handed to every invocation
planner_errors_list(allocated) == 1

\* the list object `"errors": []` evaluates to: a new one at every call
new_errors_list(allocated) == Len(allocated) + 1

\* what the callers of the shared planner ask for
ConcRequests ==
    {initial_state(query, None, "Paris", None, None, 1, NoneNum, EmptyDict) :
         query \in Queries}

\* the classifier's answer in these runs: a trip that needs flights only
ConcExtraction ==
    [intent |-> "plan_trip", origin |-> "New York", destination |-> "Paris",
     departure_date |-> "2024-12-20", return_date |-> "2024-12-23",
     num_passengers |-> 1, budget |-> NoneNum,
     requires_flights |-> TRUE, requires_hotels |-> FALSE,
     requires_activities |-> FALSE, requires_weather |-> FALSE,
     preferences |-> EmptyDict]

\* every external call of these runs either fails or gives one fixed answer
ConcOutcomes(node) ==
    CASE node = "classify_intent" ->
             {LlmFailure,
              [raised |-> FALSE, shape |-> "bare", payload |-> ConcExtraction,
               content |-> ""]}
      [] node = "search_flights" ->
             {ProviderFailure,
              [raised |-> FALSE, shape |-> "list", records |-> <<[total_price |-> 500]>>]}
      [] node \in {"search_hotels", "check_weather", "search_activities"} ->
             {ProviderFailure}
      [] node \in {"generate_itinerary", "response_generator"} -> TextReplies

\* the node function registered under a name, run on a record
node_update(node, s, outcome) ==
    CASE node = "classify_intent" -> classify_intent_node(s, outcome)
      [] node = "search_flights" -> search_flights_node(s, outcome)
      [] node = "search_hotels" -> search_hotels_node(s, outcome)
      [] node = "check_weather" -> check_weather_node(s, outcome)
      [] node = "search_activities" -> search_activities_node(s, outcome)
      [] node = "generate_itinerary" -> generate_itinerary_node(s, outcome)
      [] node = "response_generator" -> generate_response_node(s, outcome)

\* the edge the engine follows out of a node, given the merged record
next_node(node, s) ==
    CASE node = "classify_intent" ->
             IF route_after_intent(s) = "parallel_search"
             THEN "search_flights" ELSE "response_generator"
      [] node \in {"search_flights", "search_hotels", "check_weather"} -> chain_edge(node)
      [] node = "search_activities" ->
             IF route_after_parallel_search(s) = "generate_itinerary"
             THEN "generate_itinerary" ELSE "response_generator"
      [] node = "generate_itinerary" -> "response_generator"
      [] node = "response_generator" -> "END"

\* an invocation's record as its nodes read it: `errors` is the list object
record_of(run) == [run.state EXCEPT !.errors = lists[run.state.errors]]

ConcInit ==
    /\ runs = <<>>
    /\ lists = <<>>
    /\ endpoint = "plan-trip"
    /\ state = initial_state("", None, None, None, None, 1, NoneNum, EmptyDict)
    /\ pc = "END"
    /\ trace = <<>>
    /\ provider_calls = [c \in Services |-> 0]
    /\ llm_calls = [n \in Nodes |-> 0]

\* a request arrives: plan_trip builds a record of its own and starts the graph
PlanTrip(request) ==
    /\ Len(runs) < MaxRuns
    /\ runs' = Append(runs, [request |-> request,
                             state |-> [request EXCEPT !.errors = new_errors_list(lists)],
                             pc |-> "classify_intent",
                             responses |-> <<>>])
    /\ lists' = Append(lists, <<>>)
    /\ UNCHANGED <<state, pc, trace, provider_calls, llm_calls, endpoint>>

\* the engine runs the pending node of the i-th invocation.  A service node
\* appends to the list the record refers to and returns that list; a node
\* that returns `errors + [...]` or a list literal stores a new list object.
ConcStep(i) ==
    /\ runs[i].pc # "END"
    /\ \E outcome \in ConcOutcomes(runs[i].pc) :
          LET node == runs[i].pc
              s == record_of(runs[i])
              res == node_update(node, s, outcome)
              merged == Merge(s, res.patch)
              same == node \in ServiceNodes \/ merged.errors = s.errors
              ref == IF same THEN runs[i].state.errors ELSE Len(lists) + 1
          IN
          /\ res.called \/ res.llm \/ outcome = AnyOf(ConcOutcomes(node))
          /\ lists' = IF same THEN [lists EXCEPT ![ref] = merged.errors]
                      ELSE Append(lists, merged.errors)
          /\ runs' = [runs EXCEPT ![i] =
                          [request |-> runs[i].request,
                           state |-> [merged EXCEPT !.errors = ref],
                           pc |-> next_node(node, merged),
                           responses |-> Append(runs[i].responses, outcome)]]
    /\ UNCHANGED <<state, pc, trace, provider_calls, llm_calls, endpoint>>

ConcNext ==
    \/ \E request \in ConcRequests : PlanTrip(request)
    \/ \E i \in 1..Len(runs) : ConcStep(i)

ConcSpec == ConcInit /\ [][ConcNext]_vars

\* api_v2.plan_trip: the TripPlanResponse built from the final record
plan_trip_response(result) ==
    [success |-> Len(Get(result, "errors", <<>>)) = 0,
     itinerary |-> Get(result, "itinerary", None),
     flight_options |-> Get(result, "flight_options", <<>>),
     hotel_options |-> Get(result, "hotel_options", <<>>),
     activity_options |-> Get(result, "activity_options", <<>>),
     weather_forecast |-> Get(result, "weather_forecast", <<>>),
     total_cost |-> Get(result, "total_cost", 0),
     recommendations |-> Get(result, "recommendations", <<>>),
     errors |-> Get(result, "errors", <<>>),
     completed_steps |-> Get(result, "completed_steps", <<>>)]

\* api_v2.search_flights
search_flights_response(result) ==
    [success |-> TRUE,
     flight_options |-> Get(result, "flight_options", <<>>),
     errors |-> Get(result, "errors", <<>>)]

\* api_v2.search_hotels
search_hotels_response(result) ==
    [success |-> TRUE,
     hotel_options |-> Get(result, "hotel_options", <<>>),
     errors |-> Get(result, "errors", <<>>)]

\* what the endpoint that started the run returns for a final record
rest_response(e, result) ==
    CASE e = "plan-trip" -> plan_trip_response(result)
      [] e = "search-flights" -> search_flights_response(result)
      [] e = "search-hotels" -> search_hotels_response(result)

TypeOK ==
    /\ endpoint \in Endpoints
    /\ pc \in Nodes \cup {"END"}
    /\ \A i \in 1..Len(trace) : trace[i].node \in Nodes
    /\ Len(state.errors) <= Len(trace)

----------------------------------------------------------------------------
(* Reading the record and the trace *)

errors == Get(state, "errors", <<>>)
completed_steps == Get(state, "completed_steps", <<>>)
intent == Get(state, "intent", "general")
response == Get(state, "response", None)
flight_options == Get(state, "flight_options", <<>>)
hotel_options == Get(state, "hotel_options", <<>>)
activity_options == Get(state, "activity_options", <<>>)
weather_forecast == Get(state, "weather_forecast", <<>>)

Executed(node) == \E i \in 1..Len(trace) : trace[i].node = node
Took(node, path) == \E i \in 1..Len(trace) : trace[i].node = node /\ trace[i].path = path
Entry(node) == trace[CHOOSE i \in 1..Len(trace) : trace[i].node = node]

HasError(prefix) == \E i \in 1..Len(errors) : errors[i].prefix = prefix
IsPrefixOf(p, q) == Len(p) <= Len(q) /\ SubSeq(q, 1, Len(p)) = p

----------------------------------------------------------------------------
(* Properties *)

\* C1: every run terminates and its final record holds a non-null response,
\* whatever the query, the completion service and the providers do.
C1_RunEndsWithResponse == <>(pc = "END" /\ response # None)

\* a run in which the classifier succeeded, a provider failed and the
\* completion service failed in the response composer
C1_Witness ==
    /\ pc = "END"
    /\ Took("response_generator", "raised")
    /\ \E n \in ServiceNodes : Took(n, "raised")
    /\ response = FallbackResponse

\* C2: after classification the run goes to response_generator, and runs no
\* service node and no itinerary, when intent is "general" or a "No user
\* query" error was recorded; otherwise it goes to search_flights.
EndsAfterIntent ==
    \/ intent = "general"
    \/ \E i \in 1..Len(errors) : ContainsNoUserQuery(errors[i])

C2_RouteAfterIntent ==
    Len(trace) >= 1 =>
        LET next == IF Len(trace) = 1 THEN pc ELSE trace[2].node IN
        /\ trace[1].node = "classify_intent"
        /\ next = IF EndsAfterIntent THEN "response_generator" ELSE "search_flights"
        /\ EndsAfterIntent =>
               \A n \in ServiceNodes \cup {"generate_itinerary"} : ~Executed(n)

\* a classified "general" request answered without any search
C2_Witness ==
    /\ pc = "END"
    /\ Took("classify_intent", "ok")
    /\ intent = "general"
    /\ Len(trace) = 2 /\ trace[2].node = "response_generator"

\* C3: the itinerary composer runs exactly when, at the end of the service
\* chain, intent is "plan_trip" and flights or hotels were found; a run with
\* a single-category search intent never records "itinerary_generation".
ChainFinished == Executed("search_activities")

ItineraryDue ==
    /\ ChainFinished
    /\ intent = "plan_trip"
    /\ (Len(flight_options) > 0 \/ Len(hotel_options) > 0)

C3_ItineraryOnlyForTripPlans ==
    /\ (pc = "generate_itinerary" \/ Executed("generate_itinerary")) <=> ItineraryDue
    /\ intent \in {"search_flights", "search_hotels", "search_activities", "check_weather"}
           => \A i \in 1..Len(completed_steps) : completed_steps[i] # "itinerary_generation"

\* a trip plan composed from hotels alone
C3_Witness ==
    /\ pc = "END"
    /\ Executed("generate_itinerary")
    /\ Len(flight_options) = 0 /\ Len(hotel_options) > 0

\* per service node: its routing flag, its result list, its step name, its
\* skip marker, its error prefix, its required fields and its successor
FlagOf(n) ==
    CASE n = "search_flights" -> "requires_flights"
      [] n = "search_hotels" -> "requires_hotels"
      [] n = "check_weather" -> "requires_weather"
      [] n = "search_activities" -> "requires_activities"

OptionsOf(n) ==
    CASE n = "search_flights" -> "flight_options"
      [] n = "search_hotels" -> "hotel_options"
      [] n = "check_weather" -> "weather_forecast"
      [] n = "search_activities" -> "activity_options"

StepOf(n) ==
    CASE n = "search_flights" -> "flight_search"
      [] n = "search_hotels" -> "hotel_search"
      [] n = "check_weather" -> "weather_check"
      [] n = "search_activities" -> "activity_search"

SkipMarkerOf(n) ==
    CASE n = "search_flights" -> "flight_search_skipped"
      [] n = "search_hotels" -> "hotel_search_skipped"
      [] n = "check_weather" -> "weather_check_skipped"
      [] n = "search_activities" -> "activity_search_skipped"

ErrorPrefixOf(n) ==
    CASE n = "search_flights" -> "Flight search error"
      [] n = "search_hotels" -> "Hotel search error"
      [] n = "check_weather" -> "Weather check error"
      [] n = "search_activities" -> "Activity search error"

RequiredOf(n) ==
    CASE n = "search_flights" -> {"origin", "destination", "departure_date"}
      [] n = "search_hotels" -> {"destination", "departure_date", "return_date"}
      [] n = "check_weather" -> {"destination", "departure_date"}
      [] n = "search_activities" -> {"destination"}

LaterInChain(n) ==
    CASE n = "search_flights" -> {"search_hotels", "check_weather", "search_activities"}
      [] n = "search_hotels" -> {"check_weather", "search_activities"}
      [] n = "check_weather" -> {"search_activities"}
      [] n = "search_activities" -> {}

\* the nodes the outgoing edge of a service node can lead to
SuccessorsOf(n) ==
    CASE n = "search_flights" -> {"search_hotels"}
      [] n = "search_hotels" -> {"check_weather"}
      [] n = "check_weather" -> {"search_activities"}
      [] n = "search_activities" -> {"generate_itinerary", "response_generator"}

FlagSet(n) == Get(state, FlagOf(n), FALSE)
FieldMissing(n) == \E f \in RequiredOf(n) : ~Truthy(Get(state, f, None))

AppendsOneError == Len(errors') = Len(errors) + 1 /\ IsPrefixOf(errors, errors')
LastEntry == trace[Len(trace)]

\* C4: a service node whose routing flag is false calls no provider, leaves
\* the error list as it was, leaves its result list empty and appends its
\* own "_skipped" marker to completed_steps.
C4_SkippedNode ==
    [][\A n \in ServiceNodes :
          (pc = n /\ ~FlagSet(n)) =>
              /\ provider_calls' = provider_calls
              /\ errors' = errors
              /\ Get(state', OptionsOf(n), <<>>) = <<>>
              /\ completed_steps' = Append(completed_steps, SkipMarkerOf(n))]_vars

\* a node skipped after an earlier node had recorded an error
C4_Witness ==
    /\ Took("search_flights", "raised")
    /\ Took("search_hotels", "skipped")
    /\ Took("check_weather", "skipped")
    /\ Len(errors) = 1

\* what a node does with a provider outcome, by node name
RunService(n, s, result) ==
    CASE n = "search_flights" -> search_flights_node(s, result)
      [] n = "search_hotels" -> search_hotels_node(s, result)
      [] n = "check_weather" -> check_weather_node(s, result)
      [] n = "search_activities" -> search_activities_node(s, result)

OutcomesOf(n) ==
    CASE n = "search_flights" -> ProviderOutcomes(RawFlights, MaxProviderLen)
      [] n = "search_hotels" -> ProviderOutcomes(RawHotels, MaxProviderLen)
      [] n = "check_weather" -> ProviderOutcomes(RawDays, MaxForecastLen)
      [] n = "search_activities" -> ProviderOutcomes(RawActivities, MaxActivityLen)

\* the record as it would be had no node recorded a failure so far
WithoutFailures(s) == [s EXCEPT !.errors = <<>>]

\* C5: a service node whose flag is true but which lacks a required field
\* appends exactly one error, leaves its result list empty and appends its
\* step name; the later nodes of the chain and the response node still run,
\* and what a later node finds is what it would find without the failure.
C5_MissingFields ==
    [][/\ \A n \in ServiceNodes :
             (pc = n /\ FlagSet(n) /\ FieldMissing(n)) =>
                 /\ AppendsOneError
                 /\ Get(state', OptionsOf(n), <<>>) = <<>>
                 /\ completed_steps' = Append(completed_steps, StepOf(n))
                 /\ pc' \in SuccessorsOf(n)
       /\ \A m \in ServiceNodes :
             Took(m, "missing") =>
                 /\ pc \in LaterInChain(m) =>
                        \A result \in OutcomesOf(pc) :
                            LET here == RunService(pc, state, result)
                                clean == RunService(pc, WithoutFailures(state), result)
                            IN  /\ here.path = clean.path
                                /\ Get(here.patch, OptionsOf(pc), <<>>)
                                       = Get(clean.patch, OptionsOf(pc), <<>>)
                 /\ pc = "response_generator" =>
                        /\ \A n \in ServiceNodes : Executed(n)
                        /\ pc' = "END" /\ response' # None]_vars

\* flights rejected for a missing origin, hotels found afterwards
C5_Witness ==
    /\ pc = "END"
    /\ Took("search_flights", "missing")
    /\ Took("search_hotels", "ok")
    /\ Len(hotel_options) > 0
    /\ Len(flight_options) = 0

\* C6: a service node in which parameter building or the provider call
\* raises returns an empty result list, appends exactly one error carrying
\* its category prefix, appends its step name, and the next node runs.
C6_ServiceException ==
    [][\A n \in ServiceNodes :
          (pc = n /\ trace'[Len(trace')].path = "raised") =>
              /\ Get(state', OptionsOf(n), <<>>) = <<>>
              /\ AppendsOneError
              /\ errors'[Len(errors')].prefix = ErrorPrefixOf(n)
              /\ completed_steps' = Append(completed_steps, StepOf(n))
              /\ pc' \in SuccessorsOf(n)]_vars

\* one node raised while parsing a date, another when its provider failed
C6_Witness ==
    /\ \E i \in 1..Len(trace) : trace[i].path = "raised" /\ ~trace[i].called
                                /\ trace[i].node \in ServiceNodes
    /\ \E i \in 1..Len(trace) : trace[i].path = "raised" /\ trace[i].called
    /\ pc = "END"

\* C7: every node leaves the error list it found as a prefix of the error
\* list it returns, so no recorded error is ever lost.
C7_ErrorsAppendOnly == [][IsPrefixOf(errors, errors')]_vars

\* errors of three different nodes, all still present at the end
C7_Witness ==
    /\ pc = "END"
    /\ Len(errors) >= 3
    /\ Took("generate_itinerary", "raised")
    /\ Took("response_generator", "raised")

\* C8: when the classifier's completion call fails or its reply holds no
\* parsable JSON object, the node sets intent to "general", appends one
\* "Intent classification error", and the run goes straight to
\* response_generator and then ends.
C8_ClassificationFailure ==
    [][/\ (pc = "classify_intent" /\ trace'[1].path = "raised") =>
              /\ intent' = "general"
              /\ AppendsOneError
              /\ errors'[Len(errors')].prefix = "Intent classification error"
              /\ pc' = "response_generator"
       /\ (Len(trace) >= 1 /\ trace[1].path = "raised") =>
              /\ pc = "response_generator"
              /\ pc' = "END"]_vars

\* a run of two nodes: failed classification, then the response
C8_Witness ==
    /\ pc = "END"
    /\ Took("classify_intent", "raised")
    /\ HasError("Intent classification error")
    /\ Len(trace) = 2

MinPrice(options) ==
    CHOOSE p \in {FlightPrice(options[i]) : i \in 1..Len(options)} :
        \A j \in 1..Len(options) : p <= FlightPrice(options[j])

MaxRating(options) ==
    CHOOSE r \in {HotelRating(options[i]) : i \in 1..Len(options)} :
        \A j \in 1..Len(options) : r >= HotelRating(options[j])

\* C9: with no selected flight and a non-empty flight list, the flight part
\* of total_cost is the lowest price of the list times the passenger count,
\* whatever the order of the list.
C9_CheapestFlightCosted ==
    (/\ Took("generate_itinerary", "ok")
     /\ Get(state, "selected_flight", NoOption) = NoOption
     /\ Len(flight_options) > 0)
        => state.total_cost - hotel_cost(state)
               = MinPrice(flight_options) * state.num_passengers

\* C10: with no selected hotel and a non-empty hotel list, the hotel the
\* composer presents as its default is an entry of the list whose rating is
\* the highest of the list, whatever the order of the list.
C10_BestRatedHotelShown ==
    (/\ Executed("generate_itinerary")
     /\ Get(state, "selected_hotel", NoOption) = NoOption
     /\ Len(hotel_options) > 0)
        => LET shown == Entry("generate_itinerary").prompt.hotel IN
           /\ \E i \in 1..Len(hotel_options) : hotel_options[i] = shown
           /\ HotelRating(shown) = MaxRating(hotel_options)

\* the 4.0-star hotel at 600 listed before the 4.5-star hotel at 900
C10_Witness ==
    /\ Executed("generate_itinerary")
    /\ Len(hotel_options) = 2
    /\ hotel_options[1].rating = 40 /\ hotel_options[1].total_price = 600
    /\ hotel_options[2].rating = 45 /\ hotel_options[2].total_price = 900

BudgetKinds == {"remaining", "exceed budget by"}

\* the budget statements of a recommendation list, in order
BudgetStatements(recs) == SelectSeq(recs, LAMBDA r : r.kind \in BudgetKinds)

\* C11: when a budget is set and total_cost is positive, the recommendations
\* hold exactly one budget statement: "remaining" with amount
\* budget - total_cost exactly when total_cost < budget, and "exceed budget
\* by" with amount total_cost - budget exactly when total_cost > budget.
C11_BudgetStatement ==
    (/\ Took("generate_itinerary", "ok")
     /\ state.budget # NoneNum
     /\ state.total_cost > 0)
        => LET said == BudgetStatements(state.recommendations)
               budget == state.budget
               total_cost == state.total_cost
           IN  /\ Len(said) = 1
               /\ said[1].kind = "remaining" <=> total_cost < budget
               /\ said[1].kind = "exceed budget by" <=> total_cost > budget
               /\ said[1].kind = "remaining" => said[1].amount = budget - total_cost
               /\ said[1].kind = "exceed budget by" => said[1].amount = total_cost - budget

\* C12: the result an endpoint of the REST layer returns for a finished run
\* has success true exactly when the error list it returns is empty.
C12_SuccessMeansNoErrors ==
    pc = "END" =>
        LET exposed == rest_response(endpoint, state)
        IN  exposed.success <=> exposed.errors = <<>>

\* C13: a destination the caller passed to plan_trip is still the
\* destination of the record the run returns: the classifier keeps it
\* whatever the completion service extracted, and no later node changes it.
C13_CallerDestinationKept ==
    [][/\ (pc = "classify_intent" /\ state.destination # None)
              => state'.destination = state.destination
       /\ pc # "classify_intent" => state'.destination = state.destination]_vars

RoutingFlags == {"requires_flights", "requires_hotels", "requires_weather",
                 "requires_activities"}

RequestFields == {"user_query", "origin", "destination", "departure_date", "return_date",
                  "num_passengers", "budget", "preferences"}

\* the key is set in both records to the same value, or in neither
SameEntry(s, t, k) ==
    /\ k \in DOMAIN s <=> k \in DOMAIN t
    /\ k \in DOMAIN s => s[k] = t[k]

\* C14: once the classifier has returned, no node changes a routing flag or
\* a request field, so the final record holds them as classified.
C14_RequestFrozenAfterIntent ==
    [][pc # "classify_intent" =>
          \A k \in RoutingFlags \cup RequestFields : SameEntry(state, state', k)]_vars

\* a finished trip plan whose flight search ran with the passenger count
\* the classifier left unset
C14_Witness ==
    /\ pc = "END"
    /\ Took("search_flights", "ok")
    /\ Executed("generate_itinerary")
    /\ state.requires_flights
    /\ state.num_passengers = NoneNum

\* how often a node has executed so far
Executions(node) == Cardinality({i \in 1..Len(trace) : trace[i].node = node})

\* the statement as first made: every invocation of the classifier and of
\* the two composers makes exactly one completion-service call, and the
\* service nodes make none.
C15_OneCallPerInvocation ==
    /\ \A n \in LlmNodes : llm_calls[n] = Executions(n)
    /\ \A n \in ServiceNodes : llm_calls[n] = 0

\* C15: the classifier calls the completion service exactly once when the
\* query is non-empty and not at all when it is empty; the itinerary
\* composer and the response composer call it exactly once per invocation;
\* the service nodes never call it; so a run makes at most three calls and
\* none is repeated after a failure.
C15_CompletionCalls ==
    /\ llm_calls["classify_intent"]
           = IF Executed("classify_intent") /\ ~Took("classify_intent", "no_query")
             THEN 1 ELSE 0
    /\ Took("classify_intent", "no_query") <=>
           (Executed("classify_intent") /\ ~Truthy(state.user_query))
    /\ \A n \in {"generate_itinerary", "response_generator"} :
           llm_calls[n] = Executions(n)
    /\ \A n \in ServiceNodes : llm_calls[n] = 0
    /\ \A n \in Nodes : Executions(n) <= 1
    /\ llm_calls["classify_intent"] + llm_calls["generate_itinerary"]
           + llm_calls["response_generator"] <= 3

\* a run of three calls of which the second failed and was not repeated
C15_Witness ==
    /\ pc = "END"
    /\ Took("generate_itinerary", "raised")
    /\ \A n \in LlmNodes : llm_calls[n] = 1
    /\ \E n \in ServiceNodes : Took(n, "ok")

\* what a node keeps of a provider's list, per service node
KeepsOf(n) ==
    CASE n = "search_flights" -> FlightTopN
      [] n = "search_hotels" -> HotelTopN
      [] n = "search_activities" -> ActivityTopN

\* the option is the provider's record, field by field
KeptFrom(n, option, record) ==
    CASE n = "search_flights" -> option.price = record.total_price
      [] n = "search_hotels" -> /\ option.rating = record.rating
                                /\ option.price_per_night = record.price_per_night
      [] n = "search_activities" -> option.price = record.price

\* C16: flight_options and hotel_options hold at most 5 entries and
\* activity_options at most 10, whatever the length of the provider's list,
\* and the entries kept are the first ones of that list, in its order.
C16_TopN ==
    /\ Len(flight_options) <= 5
    /\ Len(hotel_options) <= 5
    /\ Len(activity_options) <= 10
    /\ \A n \in {"search_flights", "search_hotels", "search_activities"} :
           Took(n, "ok") =>
               LET returned == Entry(n).returned
                   kept == state[OptionsOf(n)]
               IN  /\ Len(kept) = IF Len(returned) < KeepsOf(n)
                                  THEN Len(returned) ELSE KeepsOf(n)
                   /\ \A i \in 1..Len(kept) : KeptFrom(n, kept[i], returned[i])

\* six flights, six hotels and eleven activities returned, the most
\* expensive first; five, five and ten kept
C16_Witness ==
    /\ pc = "END"
    /\ Took("search_flights", "ok") /\ Len(Entry("search_flights").returned) = 6
    /\ Took("search_hotels", "ok") /\ Len(Entry("search_hotels").returned) = 6
    /\ Took("search_activities", "ok") /\ Len(Entry("search_activities").returned) = 11
    /\ Len(flight_options) = 5 /\ flight_options[1].price = 600
    /\ Len(hotel_options) = 5 /\ hotel_options[1].rating = 36
    /\ Len(activity_options) = 10 /\ activity_options[1].price = 110

Chain == <<"search_flights", "search_hotels", "check_weather", "search_activities">>

ChainEntered == pc \in ServiceNodes \/ \E n \in ServiceNodes : Executed(n)

C18_OptimizedRunEndsWithResponse == pc = "END" => response # None

\* C19: when the itinerary composer raises, it returns a null itinerary and
\* appends exactly one "Itinerary generation error" after the errors already
\* recorded; total_cost stays 0 and recommendations stays empty up to the
\* final record, and the response composer runs next and ends the run.
C19_ItineraryFailure ==
    [][/\ (pc = "generate_itinerary" /\ trace'[Len(trace')].path = "raised") =>
              /\ state'.itinerary = None
              /\ AppendsOneError
              /\ errors'[Len(errors')].prefix = "Itinerary generation error"
              /\ pc' = "response_generator"
       /\ Took("generate_itinerary", "raised") =>
              /\ state.itinerary = None /\ state'.itinerary = None
              /\ state'.total_cost = 0
              /\ state'.recommendations = <<>>
              /\ pc = "response_generator"
              /\ pc' = "END"
              /\ response' # None]_vars

\* a composer that failed with hotels found and a budget set, after an
\* earlier node had recorded an error of its own
C19_Witness ==
    /\ pc = "END"
    /\ Took("generate_itinerary", "raised")
    /\ Len(errors) >= 2
    /\ errors[1].prefix # "Itinerary generation error"
    /\ Len(hotel_options) > 0
    /\ state.budget = 1000
    /\ state.total_cost = 0 /\ state.recommendations = <<>>

\* the entry a node execution is to leave in completed_steps
StepNameOf(entry) ==
    CASE entry.node = "classify_intent" -> "intent_classification"
      [] entry.node = "generate_itinerary" -> "itinerary_generation"
      [] entry.node = "response_generator" -> "response_generation"
      [] OTHER -> IF entry.path = "skipped" THEN SkipMarkerOf(entry.node)
                  ELSE StepOf(entry.node)

IsExecutionTrace(steps, executions) ==
    /\ Len(steps) = Len(executions)
    /\ \A i \in 1..Len(steps) : steps[i] = StepNameOf(executions[i])

\* C20: completed_steps only grows by appending, and when the run ends it
\* holds one entry per executed node, in execution order, whichever path
\* each node took; its last entry is "response_generation".
C20_CompletedStepsIsTrace ==
    [][/\ IsPrefixOf(completed_steps, completed_steps')
       /\ pc' = "END" =>
              /\ IsExecutionTrace(completed_steps', trace')
              /\ completed_steps'[Len(completed_steps')] = "response_generation"]_vars

\* the step a node names itself by
OwnStepOf(node) ==
    CASE node = "classify_intent" -> "intent_classification"
      [] node = "generate_itinerary" -> "itinerary_generation"
      [] node = "response_generator" -> "response_generation"
      [] OTHER -> StepOf(node)

\* C21: after a node finishes, current_step names that node's own step,
\* also when the node was skipped by its flag or took its failure path.
C21_CurrentStepNamesNode ==
    [][Get(state', "current_step", None) = OwnStepOf(pc)]_vars

CategoryOf(n) ==
    CASE n = "search_flights" -> "flights"
      [] n = "search_hotels" -> "hotels"
      [] n = "check_weather" -> "weather"
      [] n = "search_activities" -> "activities"

\* C22: a provider is invoked only by its own node, only when the node's
\* routing flag is true and every field the category requires is non-empty,
\* and at most once in a run.
C22_ProviderCalls ==
    [][\A n \in ServiceNodes :
          /\ provider_calls'[CategoryOf(n)] <= 1
          /\ provider_calls'[CategoryOf(n)] # provider_calls[CategoryOf(n)] =>
                 /\ pc = n
                 /\ FlagSet(n)
                 /\ ~FieldMissing(n)]_vars

\* a run in which the flight provider was not asked for want of an origin
\* and the hotel and activity providers were asked once each
C22_Witness ==
    /\ pc = "END"
    /\ Took("search_flights", "missing") /\ provider_calls["flights"] = 0
    /\ provider_calls["hotels"] = 1
    /\ provider_calls["activities"] = 1
    /\ Took("check_weather", "skipped") /\ provider_calls["weather"] = 0

RECURSIVE SumProviderHighs(_)
SumProviderHighs(days) ==
    IF days = <<>> THEN 0 ELSE Head(days).high + SumProviderHighs(Tail(days))

Recommends(kind) ==
    \E i \in 1..Len(state.recommendations) : state.recommendations[i].kind = kind

\* C23: when a non-empty forecast was stored and the itinerary was
\* composed, warm clothing is recommended exactly when the average of the
\* provider's daily highs is below 50, light clothing exactly when it is
\* above 80, and neither otherwise.
C23_PackingFollowsHighs ==
    (/\ Took("check_weather", "ok")
     /\ Len(weather_forecast) > 0
     /\ Took("generate_itinerary", "ok"))
        => LET days == Entry("check_weather").returned
               total == SumProviderHighs(days)
           IN  /\ Recommends("warm clothing") <=> total < 50 * Len(days)
               /\ Recommends("light clothing") <=> total > 80 * Len(days)

\* C24: after classification num_passengers is a positive integer, whatever
\* the completion service returned for it.
C24_PositivePassengers ==
    Executed("classify_intent") =>
        /\ state.num_passengers # NoneNum
        /\ state.num_passengers >= 1

----------------------------------------------------------------------------
\* the record and the pending node of an invocation that runs alone: the
\* nodes applied in turn to the request and the given external answers
RECURSIVE RunAlone(_, _, _)
RunAlone(s, node, answers) ==
    IF answers = <<>> THEN [state |-> s, pc |-> node]
    ELSE LET merged == Merge(s, node_update(node, s, Head(answers)).patch)
         IN RunAlone(merged, next_node(node, merged), Tail(answers))

\* C25: invocations running at once on the shared planner have private
\* records.  No two records refer to the same list object, and at every
\* moment the record and the position of each invocation are what its own
\* request and the external answers given to it produce when it runs alone:
\* nothing another invocation appended shows in it.
C25_PrivateRecords ==
    \A i \in 1..Len(runs) :
        /\ \A j \in 1..Len(runs) : j # i => runs[j].state.errors # runs[i].state.errors
        /\ LET alone == RunAlone(runs[i].request, "classify_intent", runs[i].responses)
           IN /\ record_of(runs[i]) = alone.state
              /\ runs[i].pc = alone.pc

\* two invocations are past their flight search at the same time: the
\* provider failed for the first and answered the second
C25_Witness ==
    /\ Len(runs) = 2
    /\ runs[1].pc = "search_hotels" /\ runs[2].pc = "search_hotels"
    /\ Len(record_of(runs[1]).errors) = 1
    /\ record_of(runs[1]).errors[1].prefix = "Flight search error"
    /\ record_of(runs[1]).flight_options = <<>>
    /\ record_of(runs[2]).errors = <<>>
    /\ Len(record_of(runs[2]).flight_options) = 1

----------------------------------------------------------------------------
\* C26: when the itinerary composer computes a cost, the flight and the
\* hotel whose prices enter total_cost are the flight and the hotel its
\* prompt presents as selected or best available, whatever the content and
\* the order of the two option lists.
C26_CostedIsPresented ==
    Took("generate_itinerary", "ok")
        => /\ costed_flight(state) = Entry("generate_itinerary").prompt.flight
           /\ costed_hotel(state) = Entry("generate_itinerary").prompt.hotel

----------------------------------------------------------------------------
\* C27: with the repository's flight tool as the provider, the passenger
\* count enters the flight part of total_cost once: that part is the fare
\* per person of the costed flight, doubled for a round trip, times the
\* number of passengers.
C27_PassengersCountedOnce ==
    (/\ Took("generate_itinerary", "ok")
     /\ Took("search_flights", "ok")
     /\ Len(flight_options) > 0)
        => state.total_cost - hotel_cost(state)
               = (Entry("search_flights").returned[1].price_per_person
                    * (IF Truthy(state.return_date) THEN 2 ELSE 1))
                 * state.num_passengers

----------------------------------------------------------------------------
\* C28: once the classifier has run, the intent of the record is one of the
\* seven enumerated values: no null and no other value the completion
\* service returned is stored or reaches the routing functions.
C28_IntentEnumerated ==
    Executed("classify_intent") => Get(state, "intent", None) \in Intents

----------------------------------------------------------------------------
\* the two dates of the record, which no node changes after classification
DatesPresent == Truthy(state.departure_date) /\ Truthy(state.return_date)
DatesParse == IsIsoDate(state.departure_date) /\ IsIsoDate(state.return_date)
Nights == DayNumber(state.return_date) - DayNumber(state.departure_date)
ReturnAfterDeparture == DatesPresent /\ DatesParse /\ Nights >= 1

\* the hotel node ran with its flag set
HotelSearchRan == Executed("search_hotels") /\ ~Took("search_hotels", "skipped")

ErrorCount(prefix) == Cardinality({i \in 1..Len(errors) : errors[i].prefix = prefix})

\* every stored hotel option costs its nightly price times the nights of the
\* stay, and the stay has at least one night
TotalsAreNightly ==
    \A i \in 1..Len(hotel_options) :
        /\ Nights >= 1
        /\ hotel_options[i].total_price = hotel_options[i].price_per_night * Nights

\* C29 as stated: the hotel provider is invoked only when the return date
\* is strictly after the departure date; in every other case the node
\* records one "Invalid date range" error and stores no hotel; every stored
\* option has total_price = price_per_night times the number of nights,
\* which is at least 1.
C29_InvalidRangeOtherwise ==
    HotelSearchRan =>
        /\ Entry("search_hotels").called => ReturnAfterDeparture
        /\ ~ReturnAfterDeparture =>
               /\ Took("search_hotels", "invalid_dates")
               /\ ErrorCount("Invalid date range for hotel stay") = 1
               /\ hotel_options = <<>>
        /\ TotalsAreNightly

\* C29, amended: the provider is invoked only when the destination and both
\* dates are present, the dates parse as ISO dates and the return is at
\* least one day after the departure.  When all are present, both parse and
\* the return is not, the node records one "Invalid date range" error; when
\* one is absent it records "Missing required hotel parameters"; when a
\* date does not parse it records "Hotel search error".  In the three cases
\* it stores no hotel.  Every stored option has total_price =
\* price_per_night times the nights, at least 1.
C29_HotelDateRange ==
    HotelSearchRan =>
        LET present == Truthy(state.destination) /\ DatesPresent
            invalid == present /\ DatesParse /\ Nights <= 0
        IN
        /\ Entry("search_hotels").called <=> (present /\ ReturnAfterDeparture)
        /\ Took("search_hotels", "invalid_dates") <=> invalid
        /\ ErrorCount("Invalid date range for hotel stay") = IF invalid THEN 1 ELSE 0
        /\ ErrorCount("Missing required hotel parameters: destination or dates")
               = IF present THEN 0 ELSE 1
        /\ (present /\ ~DatesParse)
               => /\ Took("search_hotels", "raised")
                  /\ ErrorCount("Hotel search error") = 1
        /\ ~(present /\ ReturnAfterDeparture) => hotel_options = <<>>
        /\ TotalsAreNightly

\* a stay whose return date lies before its departure date: no provider
\* call, one error, no hotel
C29_Witness ==
    /\ pc = "END"
    /\ state.departure_date = "2024-12-20" /\ state.return_date = "2024-12-18"
    /\ Took("search_hotels", "invalid_dates")
    /\ provider_calls["hotels"] = 0
    /\ ErrorCount("Invalid date range for hotel stay") = 1
    /\ hotel_options = <<>>

----------------------------------------------------------------------------
\* C30: whenever the weather node invokes its provider, the number of
\* forecast days it asks for is between 1 and 14, whether the return date is
\* absent, equal to, after or before the departure date.
C30_ForecastDaysInRange ==
    \A i \in 1..Len(trace) :
        (trace[i].node = "check_weather" /\ trace[i].called)
            => (1 <= trace[i].days /\ trace[i].days <= ForecastToolLimit)

====
